---------------------------- MODULE Spec2Model ----------------------------
(***************************************************************************)
(* Model of the TrackContainer component of the genome browser: the list   *)
(* of track models it receives as props, its own state (selectedTool,      *)
(* contextMenuEvent) and its event handlers.  The parent owns the tracks   *)
(* array; every array a handler passes to onTracksChanged comes back as    *)
(* the next tracks prop.  Track indices are 0-based as in the source.      *)
(***************************************************************************)
EXTENDS Integers, Sequences, FiniteSets, TLC

VARIABLES
    tracks,              \* this.props.tracks: sequence of [id, isSelected]
    selectedTool,        \* this.state.selectedTool
    contextMenuEvent,    \* this.state.contextMenuEvent: NoEvent or a mouse event
    lastOp,              \* the handler that ran last, with its arguments
    prevTracks,          \* this.props.tracks when the last handler started
    prevMenu,            \* this.state.contextMenuEvent when the last handler started
    tracksChangedCalls,  \* number of onTracksChanged calls made by the last handler
    emitted,             \* the array the last handler passed to onTracksChanged
    prevGesture,         \* what the handler before the last one was (see Gesture)
    \* the earlier TrackContainer, which handles the view drag itself
    xOffsets,            \* this.state.xOffsets: one draw offset per track
    offsetsOnDragStart,  \* this.offsetsOnDragStart
    dragging,            \* a drag of the ViewDragListener is in progress
    dragOp,              \* the drag handler that ran last, with its arguments
    prevOffsets,         \* this.state.xOffsets when the last drag handler started
    regionCalls,         \* the newRegionCallback calls of the current gesture, in order
    gestures,            \* number of drag gestures started so far
    \* the sub-container rendered for the selected tool
    gesture,             \* its gesture state and the tool it was rendered for
    gestureSwitched,     \* the tool was switched during the gesture started last
    newRegionCalls,      \* number of onNewRegion calls made by the last step
    trackMovedCalls,     \* number of onTrackMoved calls made by the last step
    \* the G3d track configuration
    g3dCall,             \* the last call of a shouldFetch predicate: arguments and result
    \* the objects behind this.props.tracks
    store,               \* the arrays and TrackModel objects that exist, by reference
    propsTracks,         \* the array this.props.tracks refers to
    canonStore,          \* the store when the last handler started
    canonTracks,         \* the array this.props.tracks referred to at that time
    emittedRef           \* the array the last handler passed to onTracksChanged

containerVars == <<tracks, selectedTool, contextMenuEvent, lastOp, prevTracks, prevMenu,
                   tracksChangedCalls, emitted, prevGesture>>

dragVars == <<xOffsets, offsetsOnDragStart, dragging, dragOp, prevOffsets, regionCalls,
              gestures>>

toolVars == <<gesture, gestureSwitched, newRegionCalls, trackMovedCalls>>

configVars == <<g3dCall>>

heapVars == <<store, propsTracks, canonStore, canonTracks, emittedRef>>

vars == <<containerVars, dragVars, toolVars, configVars, heapVars>>

\* ------------------------------------------------------------------ bounds
MaxTracks == 3

\* number of tracks of the container whose sub-container gestures are followed
MaxToolTracks == 2
\* number of DisplayedRegionModel objects passed to the G3d configuration
MaxRegions == 3
\* number of tracks of the container that handles the view drag
MaxDragTracks == 2
\* number of drag gestures that may be started
MaxGestures == 2
\* number of tracks of the container whose objects are followed by reference
MaxHeapTracks == 2

\* --------------------------------------------------------------- constants
DRAG == 0
ZOOM == 1
REORDER == 2
tools == {DRAG, ZOOM, REORDER}

LEFT == "LEFT"
RIGHT == "RIGHT"
MouseButtons == {LEFT, RIGHT}

\* null, as the value of this.state.contextMenuEvent
NoEvent == [button |-> "none", ctrlKey |-> FALSE, inTrackDiv |-> FALSE]

\* A mouse event: its button, its ctrlKey flag, and whether its target lies
\* inside this.trackDiv (what this.trackDiv.contains(event.target) returns).
MouseEvents == [button : MouseButtons, ctrlKey : BOOLEAN, inTrackDiv : BOOLEAN]

\* Events delivered by a Track element, which is rendered inside trackDiv.
TrackEvents == {e \in MouseEvents : e.inTrackDiv}

\* ------------------------------------------------------------ array helpers
Indices(ts) == 0 .. (Len(ts) - 1)

\* Array.prototype.slice() on a whole array: a shallow copy
slice(ts) == [i \in 1 .. Len(ts) |-> ts[i]]

\* arr.splice(start, 1): the array that remains
spliceRemove(ts, start) ==
    [i \in 1 .. (Len(ts) - 1) |-> IF i <= start THEN ts[i] ELSE ts[i + 1]]

\* splice that overwrites the element at start instead of inserting before it
spliceInsert_overwrite(ts, start, item) ==
    [i \in 1 .. Len(ts) |-> IF i = start + 1 THEN item ELSE ts[i]]

\* arr.splice(start, 0, item): the array with item inserted before index start
spliceInsert(ts, start, item) ==
    [i \in 1 .. (Len(ts) + 1) |->
        IF i <= start THEN ts[i]
        ELSE IF i = start + 1 THEN item
        ELSE ts[i - 1]]

\* TrackModel.clone() followed by an assignment to the clone's isSelected
cloneWithSelected(track, sel) == [track EXCEPT !.isSelected = sel]

\* ----------------------------------------------------- TrackContainer code
\* What a handler does to the outside: the number of onTracksChanged calls it
\* makes, the array it passes, and the contextMenuEvent it leaves in state.
Outcome(calls, arr, menu) == [calls |-> calls, emitted |-> arr, menu |-> menu]

\* sets the flag instead of negating it
toggleOneTrack_select(ts, index) ==
    [ts EXCEPT ![index + 1] = cloneWithSelected(ts[index + 1], TRUE)]

toggleOneTrack(ts, index) ==
    [ts EXCEPT ![index + 1] = cloneWithSelected(ts[index + 1], ~ts[index + 1].isSelected)]

\* returns the tracks as they are
deselectAllTracks_keep(ts) == ts

deselectAllTracks(ts) ==
    [i \in 1 .. Len(ts) |->
        IF ts[i].isSelected THEN cloneWithSelected(ts[i], FALSE) ELSE ts[i]]

\* shifts the target index down when the track moves towards the end
requestTrackReorder_shifted(ts, menu, fromIndex, toIndex) ==
    LET newOrder == slice(ts)
        moved    == newOrder[fromIndex + 1]
        removed  == spliceRemove(newOrder, fromIndex)
        target   == IF fromIndex < toIndex THEN toIndex - 1 ELSE toIndex
    IN  Outcome(1, spliceInsert(removed, target, moved), menu)

\* inserts a deselected copy of the moved track
requestTrackReorder_deselects(ts, menu, fromIndex, toIndex) ==
    LET newOrder == slice(ts)
        moved    == cloneWithSelected(newOrder[fromIndex + 1], FALSE)
        removed  == spliceRemove(newOrder, fromIndex)
    IN  Outcome(1, spliceInsert(removed, toIndex, moved), menu)

requestTrackReorder(ts, menu, fromIndex, toIndex) ==
    LET newOrder == slice(ts)
        moved    == newOrder[fromIndex + 1]
        removed  == spliceRemove(newOrder, fromIndex)
    IN  Outcome(1, spliceInsert(removed, toIndex, moved), menu)

\* toggles on every primary-button click, modifier or not
trackClicked_anyLeftClick(ts, menu, event, index) ==
    IF event.button = LEFT
    THEN Outcome(1, toggleOneTrack(slice(ts), index), menu)
    ELSE Outcome(0, << >>, menu)

\* a modifier-click that clears the rest of the selection first
trackClicked_exclusive(ts, menu, event, index) ==
    IF event.button = LEFT /\ event.ctrlKey
    THEN Outcome(1, toggleOneTrack(deselectAllTracks(ts), index), menu)
    ELSE Outcome(0, << >>, menu)

trackClicked(ts, menu, event, index) ==
    IF event.button = LEFT /\ event.ctrlKey
    THEN Outcome(1, toggleOneTrack(slice(ts), index), menu)
    ELSE Outcome(0, << >>, menu)

\* opens the menu for every non-primary button, modifier or not
openContextMenu_noCtrlCheck(ts, menu, event, index) ==
    IF event.button = LEFT
    THEN trackClicked(ts, menu, event, index)
    ELSE IF ~ts[index + 1].isSelected
    THEN Outcome(1, toggleOneTrack(deselectAllTracks(ts), index), event)
    ELSE Outcome(0, << >>, event)

\* a right-click that makes the target the sole selection even when it was selected
openContextMenu_alwaysSolo(ts, menu, event, index) ==
    IF event.button = LEFT
    THEN trackClicked(ts, menu, event, index)
    ELSE IF event.ctrlKey
    THEN Outcome(0, << >>, menu)
    ELSE Outcome(1, [i \in 1 .. Len(ts) |-> cloneWithSelected(ts[i], i = index + 1)], event)

\* a primary-button event that falls through to the menu after the click
openContextMenu_noReturn(ts, menu, event, index) ==
    IF event.ctrlKey /\ event.button # LEFT
    THEN Outcome(0, << >>, menu)
    ELSE IF event.button = LEFT /\ event.ctrlKey
    THEN Outcome(1, toggleOneTrack(slice(ts), index), event)
    ELSE IF ~ts[index + 1].isSelected
    THEN Outcome(1, toggleOneTrack(deselectAllTracks(ts), index), event)
    ELSE Outcome(0, << >>, event)

\* opens the menu without selecting the track it was opened on
openContextMenu_noSelect(ts, menu, event, index) ==
    IF event.button = LEFT
    THEN trackClicked(ts, menu, event, index)
    ELSE IF event.ctrlKey
    THEN Outcome(0, << >>, menu)
    ELSE Outcome(0, << >>, event)

openContextMenu(ts, menu, event, index) ==
    IF event.button = LEFT
    THEN trackClicked(ts, menu, event, index)
    ELSE IF event.ctrlKey
    THEN Outcome(0, << >>, menu)
    ELSE IF ~ts[index + 1].isSelected
    THEN Outcome(1, toggleOneTrack(deselectAllTracks(ts), index), event)
    ELSE Outcome(0, << >>, event)

\* TrackContainer.trackMoved of the earlier version: the same statements
trackMoved(ts, menu, fromIndex, toIndex) ==
    LET newOrder == slice(ts)
        moved    == newOrder[fromIndex + 1]
        removed  == spliceRemove(newOrder, fromIndex)
    IN  Outcome(1, spliceInsert(removed, toIndex, moved), menu)

\* deselects on every close, also for a click inside the track div
closeContextMenu_insideDeselects(ts, menu, event) ==
    IF event.inTrackDiv /\ event.ctrlKey
    THEN Outcome(0, << >>, menu)
    ELSE Outcome(1, deselectAllTracks(ts), NoEvent)

\* closes the menu without deselecting
closeContextMenu_noDeselect(ts, menu, event) ==
    IF event.inTrackDiv /\ event.ctrlKey
    THEN Outcome(0, << >>, menu)
    ELSE Outcome(0, << >>, NoEvent)

\* closes without the early return for a modifier-click inside the track div
closeContextMenu_noReturn(ts, menu, event) ==
    IF ~event.inTrackDiv
    THEN Outcome(1, deselectAllTracks(ts), NoEvent)
    ELSE Outcome(0, << >>, NoEvent)

closeContextMenu(ts, menu, event) ==
    IF event.inTrackDiv /\ event.ctrlKey
    THEN Outcome(0, << >>, menu)
    ELSE IF ~event.inTrackDiv
    THEN Outcome(1, deselectAllTracks(ts), NoEvent)
    ELSE Outcome(0, << >>, NoEvent)

\* ------------------------------------------- the same code on the objects
\* The handlers once more, on references: a store holds the arrays and the
\* TrackModel objects that exist, each under its reference, and an assignment
\* through a reference changes the store entry every holder of it sees.
NoRef == 0

\* the reference a newly created object gets: the first one not in use
NewRef(used) ==
    CHOOSE r \in 1 .. (Cardinality(used) + 1) :
        /\ r \notin used
        /\ \A q \in 1 .. (r - 1) : q \in used

Extend(f, k, v) == [x \in DOMAIN f \cup {k} |-> IF x = k THEN v ELSE f[x]]

\* the [id, isSelected] values of the array behind a reference
Deref(st, arr) == [i \in 1 .. Len(st.arrs[arr]) |-> st.objs[st.arrs[arr][i]]]

\* the reference under which a handler finds this.props.tracks
PropsRef == 1

\* the first index at which the array holds the object it holds at index i
FirstIndex(elems, i) ==
    CHOOSE j \in 1 .. i :
        /\ elems[j] = elems[i]
        /\ \A k \in 1 .. (j - 1) : elems[k] # elems[i]

\* The store as a handler finds it: only what is reachable from the array,
\* which goes under PropsRef, each object under the first index at which the
\* array holds it.  The code compares references for equality only, so the
\* renaming does not show.
Compact(st, arr) ==
    LET elems == st.arrs[arr]
    IN  [objs |-> [r \in {FirstIndex(elems, i) : i \in 1 .. Len(elems)} |->
                      st.objs[elems[r]]],
         arrs |-> [a \in {PropsRef} |->
                      [i \in 1 .. Len(elems) |-> FirstIndex(elems, i)]]]

\* TrackModel.clone(): a new object with the field values of the original
cloneOnHeap(st, ref) ==
    LET r == NewRef(DOMAIN st.objs)
    IN  [store |-> [st EXCEPT !.objs = Extend(st.objs, r, st.objs[ref])], ref |-> r]

\* arr.slice(): a new array holding the same objects
sliceOnHeap(st, arr) ==
    LET a == NewRef(DOMAIN st.arrs)
    IN  [store |-> [st EXCEPT !.arrs = Extend(st.arrs, a, st.arrs[arr])], ref |-> a]

\* flips isSelected of the object the array holds, without cloning it
toggleOneTrackOnHeap_inPlace(st, arr, index) ==
    LET ref == st.arrs[arr][index + 1]
    IN  [st EXCEPT !.objs[ref].isSelected = ~st.objs[ref].isSelected]

toggleOneTrackOnHeap(st, arr, index) ==
    LET c == cloneOnHeap(st, st.arrs[arr][index + 1])
    IN  [c.store EXCEPT !.arrs[arr][index + 1] = c.ref,
                        !.objs[c.ref].isSelected = ~c.store.objs[c.ref].isSelected]

\* the callback of this.props.tracks.map applied to the first n elements
RECURSIVE mapDeselect(_, _, _)
mapDeselect(st, elems, n) ==
    IF n = 0
    THEN [store |-> st, arr |-> << >>]
    ELSE LET done == mapDeselect(st, elems, n - 1)
             ref  == elems[n]
         IN  IF done.store.objs[ref].isSelected
             THEN LET c == cloneOnHeap(done.store, ref)
                  IN  [store |-> [c.store EXCEPT !.objs[c.ref].isSelected = FALSE],
                       arr   |-> Append(done.arr, c.ref)]
             ELSE [store |-> done.store, arr |-> Append(done.arr, ref)]

deselectAllTracksOnHeap(st, arr) ==
    LET mapped == mapDeselect(st, st.arrs[arr], Len(st.arrs[arr]))
        a      == NewRef(DOMAIN mapped.store.arrs)
    IN  [store |-> [mapped.store EXCEPT !.arrs = Extend(mapped.store.arrs, a, mapped.arr)],
         ref   |-> a]

\* What a handler does to the objects: the store it leaves and the array it
\* passes to onTracksChanged (NoRef when it makes no call).
HeapOutcome(st, ref) == [store |-> st, emitted |-> ref]

requestTrackReorderOnHeap(st, props, fromIndex, toIndex) ==
    LET newOrder == sliceOnHeap(st, props)
        elems    == newOrder.store.arrs[newOrder.ref]
        moved    == elems[fromIndex + 1]
        spliced  == spliceInsert(spliceRemove(elems, fromIndex), toIndex, moved)
    IN  HeapOutcome([newOrder.store EXCEPT !.arrs[newOrder.ref] = spliced], newOrder.ref)

trackClickedOnHeap(st, props, event, index) ==
    IF event.button = LEFT /\ event.ctrlKey
    THEN LET nextTracks == sliceOnHeap(st, props)
         IN  HeapOutcome(toggleOneTrackOnHeap(nextTracks.store, nextTracks.ref, index),
                         nextTracks.ref)
    ELSE HeapOutcome(st, NoRef)

openContextMenuOnHeap(st, props, event, index) ==
    IF event.button = LEFT
    THEN trackClickedOnHeap(st, props, event, index)
    ELSE IF event.ctrlKey
    THEN HeapOutcome(st, NoRef)
    ELSE IF ~st.objs[st.arrs[props][index + 1]].isSelected
    THEN LET nextTracks == deselectAllTracksOnHeap(st, props)
         IN  HeapOutcome(toggleOneTrackOnHeap(nextTracks.store, nextTracks.ref, index),
                         nextTracks.ref)
    ELSE HeapOutcome(st, NoRef)

closeContextMenuOnHeap(st, props, event) ==
    IF event.inTrackDiv /\ event.ctrlKey
    THEN HeapOutcome(st, NoRef)
    ELSE IF ~event.inTrackDiv
    THEN LET nextTracks == deselectAllTracksOnHeap(st, props)
         IN  HeapOutcome(nextTracks.store, nextTracks.ref)
    ELSE HeapOutcome(st, NoRef)

\* the tracks array the parent passes at first, one object per track
HeapConstructed(ts) ==
    /\ store = [objs |-> [r \in 1 .. Len(ts) |-> ts[r]],
                arrs |-> [a \in {PropsRef} |-> [i \in 1 .. Len(ts) |-> i]]]
    /\ propsTracks = PropsRef
    /\ canonStore = store
    /\ canonTracks = propsTracks
    /\ emittedRef = NoRef

\* ------------------------------------------------------------------ actions
Op(name, event, index, toIndex) ==
    [name |-> name, button |-> event.button, ctrlKey |-> event.ctrlKey,
     inTrackDiv |-> event.inTrackDiv, index |-> index, toIndex |-> toIndex]

\* A handler ran to completion: its setState took effect and the parent
\* re-rendered the container with the array passed to onTracksChanged.
Handled(op, out) ==
    /\ lastOp' = op
    /\ prevTracks' = tracks
    /\ prevMenu' = contextMenuEvent
    /\ tracksChangedCalls' = out.calls
    /\ emitted' = out.emitted
    /\ contextMenuEvent' = out.menu
    /\ tracks' = IF out.calls > 0 THEN out.emitted ELSE tracks

NoGesture == [kind |-> "other", index |-> -1]

DragOp(name, dx, index, region) ==
    [name |-> name, dx |-> dx, index |-> index,
     newStart |-> region.newStart, newEnd |-> region.newEnd]

NoRegion == [newStart |-> -1, newEnd |-> -1]

\* the sub-container of the tool selected at first, with no gesture
NoToolGesture == [state |-> "IDLE", tool |-> DRAG]

\* no shouldFetch predicate has been called
NoG3dCall == [fn |-> "none"]

SubContainerMounted ==
    /\ g3dCall = NoG3dCall
    /\ gesture = NoToolGesture
    /\ gestureSwitched = FALSE
    /\ newRegionCalls = 0
    /\ trackMovedCalls = 0

\* the drag container as its constructor leaves it, for n tracks
DragConstructed(n) ==
    /\ xOffsets = [i \in 1 .. n |-> 0]
    /\ offsetsOnDragStart = xOffsets
    /\ dragging = FALSE
    /\ dragOp = DragOp("init", 0, -1, NoRegion)
    /\ prevOffsets = xOffsets
    /\ regionCalls = << >>
    /\ gestures = 0

Init ==
    /\ \E n \in 1 .. MaxTracks :
         \E sel \in [1 .. n -> BOOLEAN] :
            tracks = [i \in 1 .. n |-> [id |-> i, isSelected |-> sel[i]]]
    /\ selectedTool = DRAG
    /\ contextMenuEvent = NoEvent
    /\ lastOp = Op("init", NoEvent, -1, -1)
    /\ prevTracks = tracks
    /\ prevMenu = NoEvent
    /\ tracksChangedCalls = 0
    /\ emitted = << >>
    /\ prevGesture = NoGesture
    /\ HeapConstructed(<< >>)
    /\ DragConstructed(0)
    /\ SubContainerMounted

\* onTrackMoved of the ReorderableTrackContainer, rendered for tools.REORDER
RequestTrackReorder ==
    /\ selectedTool = REORDER
    /\ \E fromIndex \in Indices(tracks), toIndex \in Indices(tracks) :
          Handled(Op("requestTrackReorder", NoEvent, fromIndex, toIndex),
                  requestTrackReorder(tracks, contextMenuEvent, fromIndex, toIndex))
    /\ UNCHANGED <<selectedTool, prevGesture>>
    /\ UNCHANGED <<dragVars, toolVars, configVars, heapVars>>

\* the same handler under its earlier name
TrackMoved ==
    /\ selectedTool = REORDER
    /\ \E fromIndex \in Indices(tracks), toIndex \in Indices(tracks) :
          Handled(Op("trackMoved", NoEvent, fromIndex, toIndex),
                  trackMoved(tracks, contextMenuEvent, fromIndex, toIndex))
    /\ UNCHANGED <<selectedTool, prevGesture>>
    /\ UNCHANGED <<dragVars, toolVars, configVars, heapVars>>

\* onClick of the Track element at index
TrackClickedEvent ==
    /\ \E event \in TrackEvents, index \in Indices(tracks) :
          Handled(Op("trackClicked", event, index, -1),
                  trackClicked(tracks, contextMenuEvent, event, index))
    /\ UNCHANGED selectedTool
    /\ UNCHANGED <<dragVars, toolVars, configVars, heapVars>>

\* onContextMenu of the Track element at index
OpenContextMenuEvent ==
    /\ \E event \in TrackEvents, index \in Indices(tracks) :
          Handled(Op("openContextMenu", event, index, -1),
                  openContextMenu(tracks, contextMenuEvent, event, index))
    /\ UNCHANGED selectedTool
    /\ UNCHANGED <<dragVars, toolVars, configVars, heapVars>>

\* onClose of the ContextMenu, which is rendered only while contextMenuEvent is set
CloseContextMenuEvent ==
    /\ contextMenuEvent # NoEvent
    /\ \E event \in MouseEvents :
          Handled(Op("closeContextMenu", event, -1, -1),
                  closeContextMenu(tracks, contextMenuEvent, event))
    /\ UNCHANGED selectedTool
    /\ UNCHANGED <<dragVars, toolVars, configVars, heapVars>>

TrackClicked == TrackClickedEvent /\ UNCHANGED prevGesture

OpenContextMenu == OpenContextMenuEvent /\ UNCHANGED prevGesture

CloseContextMenu == CloseContextMenuEvent /\ UNCHANGED prevGesture

\* onClick of a tool select button
SelectTool ==
    /\ \E tool \in tools :
          /\ selectedTool' = tool
          /\ lastOp' = Op("selectTool", NoEvent, tool, -1)
    /\ prevTracks' = tracks
    /\ prevMenu' = contextMenuEvent
    /\ tracksChangedCalls' = 0
    /\ emitted' = << >>
    /\ UNCHANGED <<tracks, contextMenuEvent, prevGesture>>
    /\ UNCHANGED <<dragVars, toolVars, configVars, heapVars>>

Next ==
    \/ RequestTrackReorder
    \/ TrackMoved
    \/ TrackClicked
    \/ OpenContextMenu
    \/ CloseContextMenu
    \/ SelectTool

Spec == Init /\ [][Next]_vars

\* ------------------------------------------- sequences of selection gestures
\* The selection handlers alone, with the gesture of the handler before the
\* last one kept in prevGesture: a modifier-click (primary button with ctrl on
\* a track), a right-click that selected an unselected track, a right-click on
\* a selected track, or anything else.
Gesture(op, calls) ==
    IF op.name = "trackClicked" /\ op.button = LEFT /\ op.ctrlKey
    THEN [kind |-> "modifierClick", index |-> op.index]
    ELSE IF op.name = "openContextMenu" /\ op.button # LEFT /\ ~op.ctrlKey
    THEN [kind |-> IF calls > 0 THEN "rightClickSelect" ELSE "rightClickKeep",
          index |-> op.index]
    ELSE NoGesture

ClickAfterGesture ==
    TrackClickedEvent /\ prevGesture' = Gesture(lastOp, tracksChangedCalls)

ContextMenuAfterGesture ==
    OpenContextMenuEvent /\ prevGesture' = Gesture(lastOp, tracksChangedCalls)

CloseAfterGesture ==
    CloseContextMenuEvent /\ prevGesture' = Gesture(lastOp, tracksChangedCalls)

NextSelect ==
    \/ ClickAfterGesture
    \/ ContextMenuAfterGesture
    \/ CloseAfterGesture

SpecSelect == Init /\ [][NextSelect]_vars

\* --------------------------------------------- the handlers on the objects
\* The container with the objects behind this.props.tracks.  A handler starts
\* from the objects reachable from this.props.tracks (the array of the render
\* before and the objects only it held are gone), and the array it passes to
\* onTracksChanged is the one this.props.tracks refers to afterwards.
InitHeap ==
    /\ \E n \in 1 .. MaxHeapTracks :
         \E sel \in [1 .. n -> BOOLEAN] :
            tracks = [i \in 1 .. n |-> [id |-> i, isSelected |-> sel[i]]]
    /\ selectedTool = DRAG
    /\ contextMenuEvent = NoEvent
    /\ lastOp = Op("init", NoEvent, -1, -1)
    /\ prevTracks = tracks
    /\ prevMenu = NoEvent
    /\ tracksChangedCalls = 0
    /\ emitted = << >>
    /\ prevGesture = NoGesture
    /\ HeapConstructed(tracks)
    /\ DragConstructed(0)
    /\ SubContainerMounted

HeapHandled(out) ==
    /\ canonStore' = Compact(store, propsTracks)
    /\ canonTracks' = PropsRef
    /\ store' = out.store
    /\ emittedRef' = out.emitted
    /\ propsTracks' = IF out.emitted # NoRef THEN out.emitted ELSE PropsRef

HeapRequestTrackReorder ==
    /\ selectedTool = REORDER
    /\ \E fromIndex \in Indices(tracks), toIndex \in Indices(tracks) :
          /\ Handled(Op("requestTrackReorder", NoEvent, fromIndex, toIndex),
                     requestTrackReorder(tracks, contextMenuEvent, fromIndex, toIndex))
          /\ HeapHandled(requestTrackReorderOnHeap(Compact(store, propsTracks), PropsRef,
                                                   fromIndex, toIndex))
    /\ UNCHANGED <<selectedTool, prevGesture>>
    /\ UNCHANGED <<dragVars, toolVars, configVars>>

HeapTrackClicked ==
    /\ \E event \in TrackEvents, index \in Indices(tracks) :
          /\ Handled(Op("trackClicked", event, index, -1),
                     trackClicked(tracks, contextMenuEvent, event, index))
          /\ HeapHandled(trackClickedOnHeap(Compact(store, propsTracks), PropsRef,
                                            event, index))
    /\ UNCHANGED <<selectedTool, prevGesture>>
    /\ UNCHANGED <<dragVars, toolVars, configVars>>

HeapOpenContextMenu ==
    /\ \E event \in TrackEvents, index \in Indices(tracks) :
          /\ Handled(Op("openContextMenu", event, index, -1),
                     openContextMenu(tracks, contextMenuEvent, event, index))
          /\ HeapHandled(openContextMenuOnHeap(Compact(store, propsTracks), PropsRef,
                                               event, index))
    /\ UNCHANGED <<selectedTool, prevGesture>>
    /\ UNCHANGED <<dragVars, toolVars, configVars>>

HeapCloseContextMenu ==
    /\ contextMenuEvent # NoEvent
    /\ \E event \in MouseEvents :
          /\ Handled(Op("closeContextMenu", event, -1, -1),
                     closeContextMenu(tracks, contextMenuEvent, event))
          /\ HeapHandled(closeContextMenuOnHeap(Compact(store, propsTracks), PropsRef,
                                                event))
    /\ UNCHANGED <<selectedTool, prevGesture>>
    /\ UNCHANGED <<dragVars, toolVars, configVars>>

NextHeap ==
    \/ HeapRequestTrackReorder
    \/ HeapTrackClicked
    \/ HeapOpenContextMenu
    \/ HeapCloseContextMenu
    \/ SelectTool

SpecHeap == InitHeap /\ [][NextHeap]_vars

\* ------------------------------------- the container that handles the drag
MIN_DRAG_DISTANCE_FOR_REFRESH == 20

\* coordinateDiff.dx values a drag event may carry, around the threshold
DragDistances ==
    {-MIN_DRAG_DISTANCE_FOR_REFRESH, 1 - MIN_DRAG_DISTANCE_FOR_REFRESH, 0,
     MIN_DRAG_DISTANCE_FOR_REFRESH - 1, MIN_DRAG_DISTANCE_FOR_REFRESH}

\* (newStart, newEnd) pairs the ViewDragListener may deliver
DragRegions == {[newStart |-> 0, newEnd |-> 10], [newStart |-> 5, newEnd |-> 15]}

Abs(x) == IF x < 0 THEN -x ELSE x

viewDragStart(offsets) == slice(offsets)

\* sets every offset to the displacement, whatever it was at drag start
viewDrag_absolute(onDragStart, dx) ==
    [i \in 1 .. Len(onDragStart) |-> dx]

viewDrag(onDragStart, dx) ==
    [i \in 1 .. Len(onDragStart) |-> onDragStart[i] + dx]

\* calls back whatever the distance
viewDragEnd_always(newStart, newEnd, dx) ==
    <<[newStart |-> newStart, newEnd |-> newEnd]>>

\* compares the signed distance with the threshold
viewDragEnd_noAbs(newStart, newEnd, dx) ==
    IF dx >= MIN_DRAG_DISTANCE_FOR_REFRESH
    THEN <<[newStart |-> newStart, newEnd |-> newEnd]>>
    ELSE << >>

\* the newRegionCallback calls viewDragEnd makes
viewDragEnd(newStart, newEnd, dx) ==
    IF Abs(dx) >= MIN_DRAG_DISTANCE_FOR_REFRESH
    THEN <<[newStart |-> newStart, newEnd |-> newEnd]>>
    ELSE << >>

newTrackDataCallback(offsets, index) ==
    [slice(offsets) EXCEPT ![index + 1] = 0]

\* the drag container constructed for 1 .. MaxDragTracks tracks; the other
\* container as constructed with its default props (tracks: [])
InitDrag ==
    /\ \E n \in 1 .. MaxDragTracks : DragConstructed(n)
    /\ tracks = << >>
    /\ selectedTool = DRAG
    /\ contextMenuEvent = NoEvent
    /\ lastOp = Op("init", NoEvent, -1, -1)
    /\ prevTracks = tracks
    /\ prevMenu = NoEvent
    /\ tracksChangedCalls = 0
    /\ emitted = << >>
    /\ prevGesture = NoGesture
    /\ HeapConstructed(<< >>)
    /\ SubContainerMounted

\* onViewDragStart of the ViewDragListener
ViewDragStart ==
    /\ ~dragging
    /\ gestures < MaxGestures
    /\ gestures' = gestures + 1
    /\ dragging' = TRUE
    /\ offsetsOnDragStart' = viewDragStart(xOffsets)
    /\ dragOp' = DragOp("viewDragStart", 0, -1, NoRegion)
    /\ prevOffsets' = xOffsets
    /\ regionCalls' = << >>
    /\ UNCHANGED xOffsets
    /\ UNCHANGED <<containerVars, toolVars, configVars, heapVars>>

\* a drag event that adds its displacement to the offsets currently in state
ViewDrag_accumulates ==
    /\ dragging
    /\ \E dx \in DragDistances :
          /\ xOffsets' = viewDrag(xOffsets, dx)
          /\ dragOp' = DragOp("viewDrag", dx, -1, NoRegion)
    /\ prevOffsets' = xOffsets
    /\ UNCHANGED <<offsetsOnDragStart, dragging, regionCalls, gestures>>
    /\ UNCHANGED <<containerVars, toolVars, configVars, heapVars>>

\* onViewDrag of the ViewDragListener
ViewDrag ==
    /\ dragging
    /\ \E dx \in DragDistances :
          /\ xOffsets' = viewDrag(offsetsOnDragStart, dx)
          /\ dragOp' = DragOp("viewDrag", dx, -1, NoRegion)
    /\ prevOffsets' = xOffsets
    /\ UNCHANGED <<offsetsOnDragStart, dragging, regionCalls, gestures>>
    /\ UNCHANGED <<containerVars, toolVars, configVars, heapVars>>

\* a drag end that also puts every offset back to 0
ViewDragEnd_resets ==
    /\ dragging
    /\ dragging' = FALSE
    /\ \E dx \in DragDistances, region \in DragRegions :
          /\ regionCalls' = regionCalls \o viewDragEnd(region.newStart, region.newEnd, dx)
          /\ dragOp' = DragOp("viewDragEnd", dx, -1, region)
    /\ prevOffsets' = xOffsets
    /\ xOffsets' = [i \in 1 .. Len(xOffsets) |-> 0]
    /\ UNCHANGED <<offsetsOnDragStart, gestures>>
    /\ UNCHANGED <<containerVars, toolVars, configVars, heapVars>>

\* onViewDragEnd of the ViewDragListener
ViewDragEnd ==
    /\ dragging
    /\ dragging' = FALSE
    /\ \E dx \in DragDistances, region \in DragRegions :
          /\ regionCalls' = regionCalls \o viewDragEnd(region.newStart, region.newEnd, dx)
          /\ dragOp' = DragOp("viewDragEnd", dx, -1, region)
    /\ prevOffsets' = xOffsets
    /\ UNCHANGED <<xOffsets, offsetsOnDragStart, gestures>>
    /\ UNCHANGED <<containerVars, toolVars, configVars, heapVars>>

\* onNewData of the track at index
NewTrackDataCallback ==
    /\ \E index \in Indices(xOffsets) :
          /\ xOffsets' = newTrackDataCallback(xOffsets, index)
          /\ dragOp' = DragOp("newTrackDataCallback", 0, index, NoRegion)
    /\ prevOffsets' = xOffsets
    /\ UNCHANGED <<offsetsOnDragStart, dragging, regionCalls, gestures>>
    /\ UNCHANGED <<containerVars, toolVars, configVars, heapVars>>

NextDrag ==
    \/ ViewDragStart
    \/ ViewDrag
    \/ ViewDragEnd
    \/ NewTrackDataCallback

SpecDrag == InitDrag /\ [][NextDrag]_vars

\* ------------------------------------- the container and its sub-containers
\* The container with the gestures of the sub-container it renders for the
\* selected tool: IDLE -> GESTURE_ACTIVE on pointer-down, back to IDLE on
\* release (with the completion callback) or on cancel (without).
InitTools ==
    /\ \E n \in 1 .. MaxToolTracks :
         \E sel \in [1 .. n -> BOOLEAN] :
            tracks = [i \in 1 .. n |-> [id |-> i, isSelected |-> sel[i]]]
    /\ selectedTool = DRAG
    /\ contextMenuEvent = NoEvent
    /\ lastOp = Op("init", NoEvent, -1, -1)
    /\ prevTracks = tracks
    /\ prevMenu = NoEvent
    /\ tracksChangedCalls = 0
    /\ emitted = << >>
    /\ prevGesture = NoGesture
    /\ HeapConstructed(<< >>)
    /\ DragConstructed(0)
    /\ SubContainerMounted

\* a handler of the container itself: it calls neither onNewRegion nor onTrackMoved
ContainerHandled(op, out) ==
    /\ Handled(op, out)
    /\ newRegionCalls' = 0
    /\ trackMovedCalls' = 0
    /\ UNCHANGED <<selectedTool, gesture, gestureSwitched, prevGesture>>
    /\ UNCHANGED <<dragVars, configVars, heapVars>>

\* a tool select button that leaves the sub-container of the old tool in place
SwitchTool_keepsSubContainer ==
    \E tool \in tools :
        /\ selectedTool' = tool
        /\ gesture' = gesture
        /\ gestureSwitched' =
              (gestureSwitched \/ (gesture.state = "GESTURE_ACTIVE" /\ tool # selectedTool))
        /\ Handled(Op("selectTool", NoEvent, tool, -1), Outcome(0, << >>, contextMenuEvent))
        /\ newRegionCalls' = 0
        /\ trackMovedCalls' = 0
        /\ UNCHANGED prevGesture
        /\ UNCHANGED <<dragVars, configVars, heapVars>>

\* a tool select button that also closes the context menu
SwitchTool_closesMenu ==
    \E tool \in tools :
        /\ selectedTool' = tool
        /\ gesture' = IF tool # selectedTool THEN [state |-> "IDLE", tool |-> tool] ELSE gesture
        /\ gestureSwitched' =
              (gestureSwitched \/ (gesture.state = "GESTURE_ACTIVE" /\ tool # selectedTool))
        /\ Handled(Op("selectTool", NoEvent, tool, -1), Outcome(0, << >>, NoEvent))
        /\ newRegionCalls' = 0
        /\ trackMovedCalls' = 0
        /\ UNCHANGED prevGesture
        /\ UNCHANGED <<dragVars, configVars, heapVars>>

\* onClick of a tool select button: setState({selectedTool: tool}), and for a
\* different tool renderSubContainer returns an element of another component,
\* so the old sub-container is unmounted and a new one mounted
SwitchTool ==
    \E tool \in tools :
        /\ selectedTool' = tool
        /\ gesture' = IF tool # selectedTool THEN [state |-> "IDLE", tool |-> tool] ELSE gesture
        /\ gestureSwitched' =
              (gestureSwitched \/ (gesture.state = "GESTURE_ACTIVE" /\ tool # selectedTool))
        /\ Handled(Op("selectTool", NoEvent, tool, -1), Outcome(0, << >>, contextMenuEvent))
        /\ newRegionCalls' = 0
        /\ trackMovedCalls' = 0
        /\ UNCHANGED prevGesture
        /\ UNCHANGED <<dragVars, configVars, heapVars>>

\* pointer-down with the designated button on the sub-container
GestureStart ==
    /\ gesture.state = "IDLE"
    /\ gesture' = [gesture EXCEPT !.state = "GESTURE_ACTIVE"]
    /\ gestureSwitched' = FALSE
    /\ Handled(Op("gestureStart", NoEvent, gesture.tool, -1), Outcome(0, << >>, contextMenuEvent))
    /\ newRegionCalls' = 0
    /\ trackMovedCalls' = 0
    /\ UNCHANGED <<selectedTool, prevGesture>>
    /\ UNCHANGED <<dragVars, configVars, heapVars>>

\* release on the Draggable or Zoomable sub-container: onNewRegion once, or
\* for a drag below the threshold no call
GestureEndNewRegion ==
    /\ gesture.state = "GESTURE_ACTIVE"
    /\ gesture.tool \in {DRAG, ZOOM}
    /\ gesture' = [gesture EXCEPT !.state = "IDLE"]
    /\ \E commit \in BOOLEAN :
          /\ gesture.tool = ZOOM => commit
          /\ newRegionCalls' = IF commit THEN 1 ELSE 0
    /\ Handled(Op("gestureEnd", NoEvent, gesture.tool, -1), Outcome(0, << >>, contextMenuEvent))
    /\ trackMovedCalls' = 0
    /\ UNCHANGED <<selectedTool, gestureSwitched, prevGesture>>
    /\ UNCHANGED <<dragVars, configVars, heapVars>>

\* drop on the Reorderable sub-container: onTrackMoved(fromIndex, toIndex),
\* which is requestTrackReorder
GestureEndTrackMoved ==
    /\ gesture.state = "GESTURE_ACTIVE"
    /\ gesture.tool = REORDER
    /\ gesture' = [gesture EXCEPT !.state = "IDLE"]
    /\ \E fromIndex \in Indices(tracks), toIndex \in Indices(tracks) :
          Handled(Op("gestureEnd", NoEvent, fromIndex, toIndex),
                  requestTrackReorder(tracks, contextMenuEvent, fromIndex, toIndex))
    /\ newRegionCalls' = 0
    /\ trackMovedCalls' = 1
    /\ UNCHANGED <<selectedTool, gestureSwitched, prevGesture>>
    /\ UNCHANGED <<dragVars, configVars, heapVars>>

\* the pointer leaves the surface before a release: no completion callback
GestureCancel ==
    /\ gesture.state = "GESTURE_ACTIVE"
    /\ gesture' = [gesture EXCEPT !.state = "IDLE"]
    /\ Handled(Op("gestureCancel", NoEvent, gesture.tool, -1), Outcome(0, << >>, contextMenuEvent))
    /\ newRegionCalls' = 0
    /\ trackMovedCalls' = 0
    /\ UNCHANGED <<selectedTool, gestureSwitched, prevGesture>>
    /\ UNCHANGED <<dragVars, configVars, heapVars>>

ToolTrackClicked ==
    \E event \in TrackEvents, index \in Indices(tracks) :
        ContainerHandled(Op("trackClicked", event, index, -1),
                         trackClicked(tracks, contextMenuEvent, event, index))

ToolOpenContextMenu ==
    \E event \in TrackEvents, index \in Indices(tracks) :
        ContainerHandled(Op("openContextMenu", event, index, -1),
                         openContextMenu(tracks, contextMenuEvent, event, index))

ToolCloseContextMenu ==
    /\ contextMenuEvent # NoEvent
    /\ \E event \in MouseEvents :
        ContainerHandled(Op("closeContextMenu", event, -1, -1),
                         closeContextMenu(tracks, contextMenuEvent, event))

NextTools ==
    \/ SwitchTool
    \/ GestureStart
    \/ GestureEndNewRegion
    \/ GestureEndTrackMoved
    \/ GestureCancel
    \/ ToolTrackClicked
    \/ ToolOpenContextMenu
    \/ ToolCloseContextMenu

SpecTools == InitTools /\ [][NextTools]_vars

\* --------------------------------------------------- G3d track configuration
\* RegionMode
GENOME == "genome"
CHROMOSOME == "chromosome"
REGION == "region"
\* an option that is not set (undefined)
Unset == "undefined"

\* TrackOptions: the two data options and three display options
G3dOptions ==
    [region : {GENOME, CHROMOSOME, REGION, Unset},
     resolution : {0, 200000},
     height : {300, 500},
     backgroundColor : {"white", "black"},
     label : {"", "g3d"}]

\* DisplayedRegionModel objects: ref is the identity of the object, start its
\* content; objects 1 and 3 are distinct objects with equal content
RegionObjects == {[ref |-> r, start |-> (r % 2) * 5] : r \in 1 .. MaxRegions}

\* refetches only when both data options changed
shouldFetchBecauseOptionChange_both(oldOptions, newOptions) ==
    oldOptions.region # newOptions.region /\ oldOptions.resolution # newOptions.resolution

shouldFetchBecauseOptionChange(oldOptions, newOptions) ==
    oldOptions.region # newOptions.region \/ oldOptions.resolution # newOptions.resolution

\* compares the regions by content instead of by reference
shouldFetchBecauseRegionChange_byValue(currentOptions, oldRegion, newRegion) ==
    IF currentOptions.region = GENOME \/ currentOptions.region = CHROMOSOME
    THEN FALSE
    ELSE oldRegion.start # newRegion.start

shouldFetchBecauseRegionChange(currentOptions, oldRegion, newRegion) ==
    IF currentOptions.region = GENOME \/ currentOptions.region = CHROMOSOME
    THEN FALSE
    ELSE oldRegion.ref # newRegion.ref

InitG3d ==
    /\ tracks = << >>
    /\ selectedTool = DRAG
    /\ contextMenuEvent = NoEvent
    /\ lastOp = Op("init", NoEvent, -1, -1)
    /\ prevTracks = tracks
    /\ prevMenu = NoEvent
    /\ tracksChangedCalls = 0
    /\ emitted = << >>
    /\ prevGesture = NoGesture
    /\ HeapConstructed(<< >>)
    /\ DragConstructed(0)
    /\ SubContainerMounted

\* The predicates are pure: each behaviour is one call on arguments of choice.
OptionChange ==
    /\ g3dCall = NoG3dCall
    /\ \E oldOptions \in G3dOptions, newOptions \in G3dOptions :
          g3dCall' = [fn |-> "shouldFetchBecauseOptionChange",
                      oldOptions |-> oldOptions, newOptions |-> newOptions,
                      result |-> shouldFetchBecauseOptionChange(oldOptions, newOptions)]
    /\ UNCHANGED <<containerVars, dragVars, toolVars, heapVars>>

RegionChange ==
    /\ g3dCall = NoG3dCall
    /\ \E currentOptions \in G3dOptions, oldRegion \in RegionObjects, newRegion \in RegionObjects :
          g3dCall' = [fn |-> "shouldFetchBecauseRegionChange",
                      currentOptions |-> currentOptions,
                      oldRegion |-> oldRegion, newRegion |-> newRegion,
                      result |-> shouldFetchBecauseRegionChange(currentOptions, oldRegion, newRegion)]
    /\ UNCHANGED <<containerVars, dragVars, toolVars, heapVars>>

NextG3d ==
    \/ OptionChange
    \/ RegionChange

SpecG3d == InitG3d /\ [][NextG3d]_vars

\* ------------------------------------------------------------- properties
SelectedIds(ts) == {ts[i].id : i \in {j \in 1 .. Len(ts) : ts[j].isSelected}}

Ids(ts) == {ts[i].id : i \in 1 .. Len(ts)}

Occurrences(ts, t) == Cardinality({i \in 1 .. Len(ts) : ts[i] = t})

PositionOf(ts, id) == CHOOSE i \in 1 .. Len(ts) : ts[i].id = id

IsReorder(op) == op.name \in {"requestTrackReorder", "trackMoved"}

IsModifierClick(op) == op.name = "trackClicked" /\ op.button = LEFT /\ op.ctrlKey

IsRightClick(op) == op.name = "openContextMenu" /\ op.button # LEFT /\ ~op.ctrlKey

IsClose(op) == op.name = "closeContextMenu"

\* b is a with the selection flag of the track at 0-based index negated and
\* nothing else changed
ToggledAt(a, b, index) ==
    /\ Len(b) = Len(a)
    /\ \A j \in 1 .. Len(a) :
          /\ b[j].id = a[j].id
          /\ b[j].isSelected = IF j = index + 1 THEN ~a[j].isSelected ELSE a[j].isSelected

\* C1: under any sequence of handlers the tracks array holds every track of
\* the original array exactly once, and each reorder request (under either
\* name) emits an array with exactly the tracks it was given, each as often.
C1_ReorderIsPermutation ==
    /\ \A k \in 1 .. Len(tracks) :
          Cardinality({i \in 1 .. Len(tracks) : tracks[i].id = k}) = 1
    /\ IsReorder(lastOp) =>
          /\ tracksChangedCalls = 1
          /\ tracks = emitted
          /\ Len(emitted) = Len(prevTracks)
          /\ \A i \in 1 .. Len(prevTracks) :
                Occurrences(emitted, prevTracks[i]) = Occurrences(prevTracks, prevTracks[i])

C1_Witness ==
    /\ IsReorder(lastOp)
    /\ lastOp.index # lastOp.toIndex
    /\ Len(tracks) = MaxTracks
    /\ prevTracks[1].id # 1
    /\ tracks # prevTracks

\* C2: requestTrackReorder(fromIndex, toIndex) with fromIndex # toIndex emits
\* an array with the moved track at toIndex and all other tracks in their
\* former relative order.
C2_MovedLandsAtToIndex ==
    (lastOp.name = "requestTrackReorder" /\ lastOp.index # lastOp.toIndex) =>
        /\ tracksChangedCalls = 1
        /\ Len(emitted) = Len(prevTracks)
        /\ emitted[lastOp.toIndex + 1] = prevTracks[lastOp.index + 1]
        /\ \A x \in Ids(prevTracks), y \in Ids(prevTracks) :
              (/\ x # prevTracks[lastOp.index + 1].id
               /\ y # prevTracks[lastOp.index + 1].id
               /\ PositionOf(prevTracks, x) < PositionOf(prevTracks, y))
              => /\ x \in Ids(emitted)
                 /\ y \in Ids(emitted)
                 /\ PositionOf(emitted, x) < PositionOf(emitted, y)
                 /\ emitted[PositionOf(emitted, x)] = prevTracks[PositionOf(prevTracks, x)]
                 /\ emitted[PositionOf(emitted, y)] = prevTracks[PositionOf(prevTracks, y)]

C2_Witness ==
    /\ lastOp.name = "requestTrackReorder"
    /\ lastOp.index = 0
    /\ lastOp.toIndex = 2
    /\ Len(prevTracks) = 3
    /\ tracks[3] = prevTracks[1]
    /\ tracks[1] = prevTracks[2]

\* C3: a modifier-click on track i calls onTracksChanged exactly once, with an
\* array of the same length and order in which only track i's isSelected is
\* negated.
C3_ModifierClickTogglesOne ==
    IsModifierClick(lastOp) =>
        /\ tracksChangedCalls = 1
        /\ ToggledAt(prevTracks, emitted, lastOp.index)

C3_Witness ==
    /\ IsModifierClick(lastOp)
    /\ Len(prevTracks) = 3
    /\ prevTracks[lastOp.index + 1].isSelected
    /\ ~tracks[lastOp.index + 1].isSelected
    /\ SelectedIds(tracks) # {}

\* C4: a second modifier-click on the same track, right after the first,
\* gives back the tracks array as it was before the first.
C4_DoubleToggleRestores ==
    [][(/\ IsModifierClick(lastOp)
        /\ IsModifierClick(lastOp')
        /\ lastOp'.index = lastOp.index)
       => tracks' = prevTracks]_vars

C4_Witness ==
    /\ prevGesture.kind = "modifierClick"
    /\ IsModifierClick(lastOp)
    /\ lastOp.index = prevGesture.index
    /\ Len(tracks) = 3
    /\ Cardinality(SelectedIds(tracks)) = 1

\* C5: a right-click on a selected track leaves the selection as it was, a
\* right-click on an unselected track makes that track the whole selection,
\* and either way contextMenuEvent is set to the event.
C5_RightClickSelection ==
    IsRightClick(lastOp) =>
        /\ contextMenuEvent # NoEvent
        /\ contextMenuEvent.button = lastOp.button
        /\ Ids(tracks) = Ids(prevTracks)
        /\ IF prevTracks[lastOp.index + 1].isSelected
           THEN SelectedIds(tracks) = SelectedIds(prevTracks)
           ELSE SelectedIds(tracks) = {prevTracks[lastOp.index + 1].id}

C5_Witness ==
    /\ IsRightClick(lastOp)
    /\ Cardinality(SelectedIds(prevTracks)) = 2
    /\ prevTracks[lastOp.index + 1].isSelected
    /\ Cardinality(SelectedIds(tracks)) = 2
    /\ contextMenuEvent # NoEvent

\* C6: after a right-click on an unselected track X and then a modifier-click
\* on another track Y, exactly X and Y are selected.
C6_RightClickThenModifierClick ==
    (/\ prevGesture.kind = "rightClickSelect"
     /\ IsModifierClick(lastOp)
     /\ lastOp.index # prevGesture.index)
    => SelectedIds(tracks) = {tracks[prevGesture.index + 1].id, tracks[lastOp.index + 1].id}

C6_Witness ==
    /\ prevGesture = [kind |-> "rightClickSelect", index |-> 2]
    /\ IsModifierClick(lastOp)
    /\ lastOp.index = 0
    /\ Len(tracks) = 3
    /\ SelectedIds(tracks) = {1, 3}

\* C7 as stated: closeContextMenu changes a track's isSelected only for an
\* event from outside the track div without the modifier key.
C7_DeselectOnlyOutsideWithoutModifier ==
    (IsClose(lastOp) /\ (lastOp.inTrackDiv \/ lastOp.ctrlKey)) => tracks = prevTracks

\* C7 as amended: closeContextMenu changes a track's isSelected only for an
\* event from outside the track div, with or without the modifier key; for an
\* event from inside it calls nothing and no isSelected changes, and for an
\* event from outside it leaves no track selected.
C7_DeselectOnlyOutside ==
    IsClose(lastOp) =>
        /\ lastOp.inTrackDiv => (tracks = prevTracks /\ tracksChangedCalls = 0)
        /\ ~lastOp.inTrackDiv => SelectedIds(tracks) = {}

C7_Witness ==
    /\ IsClose(lastOp)
    /\ ~lastOp.inTrackDiv
    /\ lastOp.ctrlKey
    /\ Cardinality(SelectedIds(prevTracks)) = 2
    /\ SelectedIds(tracks) = {}
    /\ contextMenuEvent = NoEvent

\* C8: closeContextMenu for an event from outside the track div without the
\* modifier key closes the menu and calls onTracksChanged with the same
\* tracks in the same order, none selected.
C8_CloseOutsideDeselectsAll ==
    (IsClose(lastOp) /\ ~lastOp.inTrackDiv /\ ~lastOp.ctrlKey) =>
        /\ contextMenuEvent = NoEvent
        /\ tracksChangedCalls = 1
        /\ Len(emitted) = Len(prevTracks)
        /\ \A i \in 1 .. Len(prevTracks) :
              /\ emitted[i].id = prevTracks[i].id
              /\ ~emitted[i].isSelected

C8_Witness ==
    /\ IsClose(lastOp)
    /\ ~lastOp.inTrackDiv
    /\ ~lastOp.ctrlKey
    /\ Cardinality(SelectedIds(prevTracks)) = 2
    /\ SelectedIds(tracks) = {}
    /\ prevMenu # NoEvent

\* C9: closeContextMenu for an event from inside the track div with the
\* modifier key held leaves contextMenuEvent as it was, set, and does not
\* call onTracksChanged.
C9_CloseInsideWithModifierKeepsMenu ==
    (IsClose(lastOp) /\ lastOp.inTrackDiv /\ lastOp.ctrlKey) =>
        /\ contextMenuEvent = prevMenu
        /\ contextMenuEvent # NoEvent
        /\ tracksChangedCalls = 0
        /\ tracks = prevTracks

C9_Witness ==
    /\ IsClose(lastOp)
    /\ lastOp.inTrackDiv
    /\ lastOp.ctrlKey
    /\ contextMenuEvent # NoEvent
    /\ SelectedIds(tracks) # {}

\* C10: openContextMenu for a primary-button event leaves contextMenuEvent as
\* it was and does what trackClicked does: with the modifier key one call of
\* onTracksChanged with that one track toggled, without it nothing.
C10_PrimaryButtonDelegatesToClick ==
    (lastOp.name = "openContextMenu" /\ lastOp.button = LEFT) =>
        /\ contextMenuEvent = prevMenu
        /\ IF lastOp.ctrlKey
           THEN tracksChangedCalls = 1 /\ ToggledAt(prevTracks, emitted, lastOp.index)
           ELSE tracksChangedCalls = 0 /\ tracks = prevTracks

C10_Witness ==
    /\ lastOp.name = "openContextMenu"
    /\ lastOp.button = LEFT
    /\ lastOp.ctrlKey
    /\ contextMenuEvent = NoEvent
    /\ tracks # prevTracks

\* C13: a drag gesture that ends with a horizontal displacement of magnitude
\* below 20 has made no newRegionCallback call, and none is made while a
\* drag is in progress.
C13_ShortDragNoNewRegion ==
    /\ dragging => regionCalls = << >>
    /\ (dragOp.name = "viewDragEnd" /\ Abs(dragOp.dx) < 20) => regionCalls = << >>

C13_Witness ==
    /\ dragOp.name = "viewDragEnd"
    /\ dragOp.dx = 19
    /\ xOffsets[1] = 19
    /\ regionCalls = << >>

\* C14: a drag gesture that ends with a horizontal displacement of magnitude
\* 20 or more, in either direction, has made exactly one newRegionCallback
\* call, with the newStart and newEnd given to viewDragEnd.
C14_LongDragOneNewRegion ==
    (dragOp.name = "viewDragEnd" /\ Abs(dragOp.dx) >= 20) =>
        regionCalls = <<[newStart |-> dragOp.newStart, newEnd |-> dragOp.newEnd]>>

C14_Witness ==
    /\ dragOp.name = "viewDragEnd"
    /\ dragOp.dx = -20
    /\ Len(regionCalls) = 1
    /\ regionCalls[1].newStart = 5

C11_ModifierContextMenuDoesNothing ==
    [][(/\ lastOp'.name = "openContextMenu"
        /\ lastOp'.button # LEFT
        /\ lastOp'.ctrlKey)
       => /\ contextMenuEvent' = contextMenuEvent
          /\ selectedTool' = selectedTool
          /\ tracks' = tracks
          /\ tracksChangedCalls' = 0
          /\ newRegionCalls' = 0]_vars

C11_Witness ==
    /\ lastOp.name = "openContextMenu"
    /\ lastOp.button # LEFT
    /\ lastOp.ctrlKey
    /\ ~tracks[lastOp.index + 1].isSelected
    /\ contextMenuEvent = NoEvent
    /\ selectedTool = ZOOM

\* C12: trackClicked without the modifier key, or with a non-primary button,
\* does not call onTracksChanged (nor onNewRegion) and leaves tracks,
\* selectedTool and contextMenuEvent as they are.
C12_PlainClickIsNoOp ==
    [][(/\ lastOp'.name = "trackClicked"
        /\ (~lastOp'.ctrlKey \/ lastOp'.button # LEFT))
       => /\ tracksChangedCalls' = 0
          /\ newRegionCalls' = 0
          /\ tracks' = tracks
          /\ selectedTool' = selectedTool
          /\ contextMenuEvent' = contextMenuEvent]_vars

C12_Witness ==
    /\ lastOp.name = "trackClicked"
    /\ lastOp.button = LEFT
    /\ ~lastOp.ctrlKey
    /\ contextMenuEvent # NoEvent
    /\ selectedTool = REORDER
    /\ tracksChangedCalls = 0

\* C17: no completion callback (onNewRegion, onTrackMoved) is made for a
\* gesture during which the tool was switched: the switch ends the gesture.
C17_NoCallbackAfterToolSwitch ==
    /\ (newRegionCalls > 0 \/ trackMovedCalls > 0) => ~gestureSwitched
    /\ gesture.state = "GESTURE_ACTIVE" => (~gestureSwitched /\ gesture.tool = selectedTool)

C17_Witness ==
    /\ lastOp.name = "selectTool"
    /\ gestureSwitched
    /\ gesture.state = "IDLE"
    /\ selectedTool = ZOOM
    /\ newRegionCalls = 0
    /\ trackMovedCalls = 0

\* C18: selectedTool is always one of DRAG, ZOOM, REORDER; at first it is
\* DRAG and the context menu is closed; selecting a tool sets selectedTool
\* and changes neither tracks nor contextMenuEvent, with no onTracksChanged
\* and no onNewRegion call.
C18_ToolSelection ==
    /\ selectedTool \in {DRAG, ZOOM, REORDER}
    /\ lastOp.name = "init" => (selectedTool = DRAG /\ contextMenuEvent = NoEvent)
    /\ lastOp.name = "selectTool" =>
          /\ selectedTool = lastOp.index
          /\ tracks = prevTracks
          /\ contextMenuEvent = prevMenu
          /\ tracksChangedCalls = 0
          /\ newRegionCalls = 0

C18_Witness ==
    /\ lastOp.name = "selectTool"
    /\ selectedTool = REORDER
    /\ contextMenuEvent # NoEvent
    /\ SelectedIds(tracks) # {}

\* C19: shouldFetchBecauseRegionChange is false whenever options.region is
\* GENOME or CHROMOSOME, whatever the regions; for every other region mode,
\* unset included, it is true exactly when oldRegion and newRegion are
\* different objects.
C19_RegionChangeFetch ==
    g3dCall.fn = "shouldFetchBecauseRegionChange" =>
        /\ g3dCall.currentOptions.region \in {"genome", "chromosome"} => ~g3dCall.result
        /\ g3dCall.currentOptions.region \notin {"genome", "chromosome"} =>
              (g3dCall.result <=> g3dCall.oldRegion.ref # g3dCall.newRegion.ref)

C19_Witness ==
    /\ g3dCall.fn = "shouldFetchBecauseRegionChange"
    /\ g3dCall.currentOptions.region = Unset
    /\ g3dCall.oldRegion.ref = 1
    /\ g3dCall.newRegion.ref = 3
    /\ g3dCall.oldRegion.start = g3dCall.newRegion.start
    /\ g3dCall.result

\* C20: shouldFetchBecauseOptionChange is true exactly when the region option
\* or the resolution option differs; when only height, background colour or
\* label differ it is false.
C20_OptionChangeFetch ==
    g3dCall.fn = "shouldFetchBecauseOptionChange" =>
        /\ g3dCall.result <=>
              ~(/\ g3dCall.oldOptions.region = g3dCall.newOptions.region
                /\ g3dCall.oldOptions.resolution = g3dCall.newOptions.resolution)
        /\ (\A key \in {"region", "resolution"} :
                g3dCall.oldOptions[key] = g3dCall.newOptions[key]) => ~g3dCall.result

C20_Witness ==
    /\ g3dCall.fn = "shouldFetchBecauseOptionChange"
    /\ g3dCall.oldOptions.region = g3dCall.newOptions.region
    /\ g3dCall.oldOptions.resolution = g3dCall.newOptions.resolution
    /\ g3dCall.oldOptions.height # g3dCall.newOptions.height
    /\ g3dCall.oldOptions.backgroundColor # g3dCall.newOptions.backgroundColor
    /\ g3dCall.oldOptions.label # g3dCall.newOptions.label
    /\ ~g3dCall.result


\* C22: within one drag gesture the offsets after a viewDrag with displacement
\* dx are the offsets saved at viewDragStart plus dx, for every track: the
\* saved offsets are the offsets in state when the gesture started, no other
\* handler changes them during the gesture, and a viewDrag adds dx to them and
\* not to the offsets in state, so neither an earlier viewDrag nor a
\* newTrackDataCallback of the same gesture shows in the result.
C22_DragFromSavedOffsets ==
    /\ dragOp.name = "viewDragStart" => offsetsOnDragStart = prevOffsets
    /\ dragOp.name = "viewDrag" =>
          /\ Len(xOffsets) = Len(offsetsOnDragStart)
          /\ \A i \in 1 .. Len(xOffsets) :
                xOffsets[i] = offsetsOnDragStart[i] + dragOp.dx
    /\ (dragging /\ dragOp.name = "newTrackDataCallback") =>
          /\ xOffsets[dragOp.index + 1] = 0
          /\ \A i \in 1 .. Len(xOffsets) :
                i # dragOp.index + 1 => xOffsets[i] = prevOffsets[i]

\* a gesture started at offsets 0, 0; a viewDrag by 19 and a reset of the
\* first track left 0, 19; the next viewDrag, by 20, gives 20, 20
C22_Witness ==
    /\ dragOp.name = "viewDrag"
    /\ dragOp.dx = MIN_DRAG_DISTANCE_FOR_REFRESH
    /\ offsetsOnDragStart = <<0, 0>>
    /\ prevOffsets = <<0, MIN_DRAG_DISTANCE_FOR_REFRESH - 1>>
    /\ xOffsets = <<MIN_DRAG_DISTANCE_FOR_REFRESH, MIN_DRAG_DISTANCE_FOR_REFRESH>>

\* C23: selection and ordering do not interfere.  A reorder requested by the
\* sub-container leaves every track with the isSelected it had; trackClicked,
\* openContextMenu and closeContextMenu leave the tracks array with the same
\* length and the same track at every index, and call neither onNewRegion nor
\* onTrackMoved.
C23_SelectionAndOrderIndependent ==
    /\ trackMovedCalls > 0 =>
          /\ Len(tracks) = Len(prevTracks)
          /\ \A i \in 1 .. Len(prevTracks) :
                \E j \in 1 .. Len(tracks) :
                    /\ tracks[j].id = prevTracks[i].id
                    /\ tracks[j].isSelected = prevTracks[i].isSelected
    /\ lastOp.name \in {"trackClicked", "openContextMenu", "closeContextMenu"} =>
          /\ Len(tracks) = Len(prevTracks)
          /\ \A i \in 1 .. Len(tracks) : tracks[i].id = prevTracks[i].id
          /\ newRegionCalls = 0
          /\ trackMovedCalls = 0

\* a reorder has swapped two tracks of which only the second was selected
C23_Witness ==
    /\ trackMovedCalls = 1
    /\ Len(tracks) = 2
    /\ prevTracks[1].id = 1 /\ ~prevTracks[1].isSelected
    /\ tracks[1].id = 2 /\ tracks[1].isSelected
    /\ tracks[2].id = 1 /\ ~tracks[2].isSelected

\* C24 as stated: whenever the context menu is open (contextMenuEvent is set)
\* at least one track is selected.
C24_OpenMenuHasSelection ==
    contextMenuEvent # NoEvent => SelectedIds(tracks) # {}

\* A toggle of one track by the primary button with the modifier key, through
\* onClick or through onContextMenu.
IsModifierToggle(op) ==
    /\ op.name \in {"trackClicked", "openContextMenu"}
    /\ op.button = LEFT
    /\ op.ctrlKey

\* C24 amended: the handler that opens the context menu leaves the track it
\* was opened on selected, and a handler that leaves the menu open with no
\* track selected, when the menu was closed or some track was selected before
\* it, is a modifier toggle that deselected the last selected track.
C24_MenuOpensWithSelection ==
    /\ IsRightClick(lastOp) =>
          /\ contextMenuEvent # NoEvent
          /\ tracks[lastOp.index + 1].isSelected
    /\ (/\ contextMenuEvent # NoEvent
        /\ SelectedIds(tracks) = {}
        /\ (prevMenu = NoEvent \/ SelectedIds(prevTracks) # {})) =>
          /\ IsModifierToggle(lastOp)
          /\ prevMenu # NoEvent
          /\ SelectedIds(prevTracks) = {prevTracks[lastOp.index + 1].id}

\* the menu is open and a modifier-click has just deselected the only
\* selected track
C24_Witness ==
    /\ contextMenuEvent # NoEvent
    /\ SelectedIds(tracks) = {}
    /\ IsModifierClick(lastOp)
    /\ SelectedIds(prevTracks) = {prevTracks[lastOp.index + 1].id}

\* the objects an array holds
Elements(st, arr) == {st.arrs[arr][i] : i \in 1 .. Len(st.arrs[arr])}

\* C21: trackClicked, openContextMenu, closeContextMenu and
\* requestTrackReorder never write to the array this.props.tracks referred to
\* when they started, nor to a TrackModel it held: afterwards that array holds
\* the same objects in the same order and each of them has the field values
\* it had.  A handler that calls onTracksChanged passes an array that did not
\* exist before, and each object in it is either one of the canonical array,
\* unchanged, or a new object that differs from one of the canonical array in
\* isSelected only.  The values of the array passed are the ones the handler
\* computes.
C21_HandlersCopyOnWrite ==
    lastOp.name \in {"trackClicked", "openContextMenu", "closeContextMenu",
                     "requestTrackReorder"} =>
        /\ canonTracks \in DOMAIN store.arrs
        /\ store.arrs[canonTracks] = canonStore.arrs[canonTracks]
        /\ \A r \in DOMAIN canonStore.objs :
              r \in DOMAIN store.objs /\ store.objs[r] = canonStore.objs[r]
        /\ Deref(store, canonTracks) = prevTracks
        /\ Deref(store, propsTracks) = tracks
        /\ tracksChangedCalls = 0 => (emittedRef = NoRef /\ propsTracks = canonTracks)
        /\ tracksChangedCalls > 0 =>
              /\ emittedRef # NoRef
              /\ emittedRef \notin DOMAIN canonStore.arrs
              /\ propsTracks = emittedRef
              /\ \A r \in Elements(store, emittedRef) :
                    \/ r \in Elements(canonStore, canonTracks)
                    \/ /\ r \notin DOMAIN canonStore.objs
                       /\ \E r0 \in Elements(canonStore, canonTracks) :
                             store.objs[r] =
                                [canonStore.objs[r0] EXCEPT
                                    !.isSelected = ~canonStore.objs[r0].isSelected]

\* a right-click on the unselected one of two tracks, the other being
\* selected: the array passed holds two new objects, and the canonical array
\* still shows the selection as it was
C21_Witness ==
    /\ IsRightClick(lastOp)
    /\ tracksChangedCalls = 1
    /\ Len(tracks) = 2
    /\ propsTracks # canonTracks
    /\ Elements(store, propsTracks) \cap Elements(store, canonTracks) = {}
    /\ SelectedIds(Deref(store, canonTracks)) # SelectedIds(Deref(store, propsTracks))
    /\ Cardinality(SelectedIds(Deref(store, canonTracks))) = 1
=============================================================================
